---------------------------- MODULE Spec2Model ----------------------------
(***************************************************************************)
(* Anomaly-detection engine of stock_market_anomaly_detector:              *)
(*   RollingStats                 (utils/rolling_stats.cpp)                *)
(*   detectAnomaliesSlidingWindow (algs/anomaly_sliding_window.cpp)        *)
(*   detectAnomaliesHeap          (algs/anomaly_heap.cpp)                  *)
(*   detectAnomaliesHeapGranular  (algs/anomaly_heap.cpp)                  *)
(*                                                                         *)
(* Numbers.  The code computes in IEEE-754 doubles.  In the model          *)
(*   - series values are integers;                                         *)
(*   - a threshold handed to a detector is an integer number of           *)
(*     hundredths (200 is 2.0);                                            *)
(*   - a target rate is an integer number of thousandths (35 is 0.035);    *)
(*   - median, MAD and the window statistics are kept as numerators over a *)
(*     fixed denominator, and their comparisons are the cross-multiplied   *)
(*     comparisons of the exact values.                                    *)
(* Where rounding decides what the code does, the model computes on        *)
(* doubles: the candidate thresholds of the granular search (how often     *)
(* each loop runs, see DSub), the rates, distances and range bounds of the *)
(* search (Percentage, Diff, InRange), and the test of the sliding         *)
(* detector where its two sides are equal in exact arithmetic (Flagged).   *)
(* Label sets hold the code's 0-based indices; the TLA+ sequence position  *)
(* of index i is i + 1.                                                    *)
(***************************************************************************)
EXTENDS Integers, Sequences, FiniteSets

Abs(x) == IF x < 0 THEN -x ELSE x

Min(a, b) == IF a <= b THEN a ELSE b

Max(a, b) == IF a >= b THEN a ELSE b

(***************************************************************************)
(* std::sort on numbers (ascending).  Equal numbers are indistinguishable, *)
(* so the outcome is the one sorted sequence: element j goes to the place  *)
(* given by the number of elements that sort before it.                    *)
(***************************************************************************)
SortAsc(s) ==
    LET n     == Len(s)
        place == [j \in 1..n |->
                    1 + Cardinality({x \in 1..n :
                            s[x] < s[j] \/ (s[x] = s[j] /\ x < j)})] \o <<>>
    IN  [k \in 1..n |-> s[CHOOSE j \in 1..n : place[j] = k]] \o <<>>

(***************************************************************************)
(* Double arithmetic, bit for bit, for RollingStats and for the rates of   *)
(* the granular search.  A natural number of                               *)
(* any size is a sequence of limbs, least significant first, each below    *)
(* BigBase and the last one not 0; a non-negative double is m * 2^e with   *)
(* m such a number of exactly 53 bits, or m = <<>> for 0.0.  Every         *)
(* operation rounds its exact result to the nearest double, ties to even,  *)
(* as the SSE2 instructions of the build do (no fused multiply-add).       *)
(***************************************************************************)
LimbBits == 13

BigBase == 8192

RECURSIVE BigTrim(_)
BigTrim(a) ==
    IF a = <<>> THEN a
    ELSE IF a[Len(a)] = 0 THEN BigTrim(SubSeq(a, 1, Len(a) - 1)) ELSE a

RECURSIVE BigFromInt(_)
BigFromInt(k) ==
    IF k = 0 THEN <<>> ELSE <<k % BigBase>> \o BigFromInt(k \div BigBase)

Limb(a, j) == IF j <= Len(a) THEN a[j] ELSE 0

RECURSIVE BigAddFrom(_, _, _, _)
BigAddFrom(a, b, j, carry) ==
    IF j > Max(Len(a), Len(b))
    THEN IF carry = 0 THEN <<>> ELSE <<carry>>
    ELSE LET t == Limb(a, j) + Limb(b, j) + carry
         IN  <<t % BigBase>> \o BigAddFrom(a, b, j + 1, t \div BigBase)

BigAdd(a, b) == BigAddFrom(a, b, 1, 0)

RECURSIVE BigSubFrom(_, _, _, _)
BigSubFrom(a, b, j, borrow) ==
    IF j > Len(a) THEN <<>>
    ELSE LET t == a[j] - Limb(b, j) - borrow
         IN  <<(t + BigBase) % BigBase>>
               \o BigSubFrom(a, b, j + 1, IF t < 0 THEN 1 ELSE 0)

\* a - b for a >= b.
BigSub(a, b) == BigTrim(BigSubFrom(a, b, 1, 0))

BigLess(a, b) ==
    IF Len(a) # Len(b) THEN Len(a) < Len(b)
    ELSE \E j \in 1..Len(a) :
            a[j] < b[j] /\ \A l \in (j + 1)..Len(a) : a[l] = b[l]

RECURSIVE BigMulSmallFrom(_, _, _, _)
BigMulSmallFrom(a, k, j, carry) ==
    IF j > Len(a)
    THEN IF carry = 0 THEN <<>> ELSE <<carry>>
    ELSE LET t == a[j] * k + carry
         IN  <<t % BigBase>> \o BigMulSmallFrom(a, k, j + 1, t \div BigBase)

\* a * k for 0 <= k < BigBase.
BigMulSmall(a, k) == IF k = 0 THEN <<>> ELSE BigMulSmallFrom(a, k, 1, 0)

BigShiftLimbs(a, n) == IF a = <<>> THEN a ELSE [j \in 1..n |-> 0] \o a

RECURSIVE BigMulFrom(_, _, _)
BigMulFrom(a, b, j) ==
    IF j > Len(b) THEN <<>>
    ELSE BigAdd(BigShiftLimbs(BigMulSmall(a, b[j]), j - 1), BigMulFrom(a, b, j + 1))

BigMul(a, b) == BigMulFrom(a, b, 1)

\* Quotient q and remainder r of the limbs 1..j of a, after the remainder
\* rem of the limbs above them, by k (0 < k < BigBase).
RECURSIVE BigDivFrom(_, _, _, _)
BigDivFrom(a, k, j, rem) ==
    IF j = 0 THEN [q |-> <<>>, r |-> rem]
    ELSE LET cur  == rem * BigBase + a[j]
             rest == BigDivFrom(a, k, j - 1, cur % k)
         IN  [q |-> Append(rest.q, cur \div k), r |-> rest.r]

BigDivSmall(a, k) ==
    LET d == BigDivFrom(a, k, Len(a), 0) IN [q |-> BigTrim(d.q), r |-> d.r]

BigShl(a, bits) == BigShiftLimbs(BigMulSmall(a, 2 ^ (bits % LimbBits)), bits \div LimbBits)

BigShr(a, bits) ==
    IF bits \div LimbBits >= Len(a) THEN <<>>
    ELSE BigDivSmall(SubSeq(a, bits \div LimbBits + 1, Len(a)), 2 ^ (bits % LimbBits)).q

BitLen(a) ==
    IF a = <<>> THEN 0
    ELSE LimbBits * (Len(a) - 1) + (CHOOSE b \in 1..LimbBits : 2 ^ (b - 1) <= a[Len(a)] /\ a[Len(a)] < 2 ^ b)

\* The largest r with r * r <= n, digit by digit: num is what is left of n,
\* res the digits found so far and bit the power of four under test.
RECURSIVE BigSqrtFrom(_, _, _)
BigSqrtFrom(num, res, bit) ==
    IF bit = <<>> THEN res
    ELSE LET s == BigAdd(res, bit)
         IN  IF BigLess(num, s)
             THEN BigSqrtFrom(num, BigShr(res, 1), BigShr(bit, 2))
             ELSE BigSqrtFrom(BigSub(num, s), BigAdd(BigShr(res, 1), bit),
                              BigShr(bit, 2))

BigSqrt(n) ==
    IF n = <<>> THEN n
    ELSE BigSqrtFrom(n, <<>>, BigShl(<<1>>, 2 * ((BitLen(n) - 1) \div 2)))

FZero == [m |-> <<>>, e |-> 0]

\* The double nearest to n * 2^e, or to a value just above it when sticky
\* (then n has more than 54 bits); ties go to the even significand.
FRound(n, e, sticky) ==
    LET len == BitLen(n)
    IN  IF n = <<>> THEN FZero
        ELSE IF len <= 53 THEN [m |-> BigShl(n, 53 - len), e |-> e - (53 - len)]
        ELSE LET d    == len - 53
                 q    == BigShr(n, d)
                 rem  == BigSub(n, BigShl(q, d))
                 half == BigShl(<<1>>, d - 1)
                 up   == \/ BigLess(half, rem)
                         \/ rem = half /\ (sticky \/ q[1] % 2 = 1)
                 q2   == IF up THEN BigAdd(q, <<1>>) ELSE q
             IN  IF BitLen(q2) > 53
                 THEN [m |-> BigShr(q2, 1), e |-> e + d + 1]
                 ELSE [m |-> q2, e |-> e + d]

\* The double of the integer k >= 0 (the values of a series are such doubles).
FFromInt(k) == FRound(BigFromInt(k), 0, FALSE)

\* x / k for an integer 0 < k < BigBase: the divisions by window.size() of
\* lines 17 and 27 of rolling_stats.cpp, and by data.size() of line 145 of
\* anomaly_heap.cpp.
FDivInt(x, k) ==
    IF x.m = <<>> THEN FZero
    ELSE LET d == BigDivSmall(BigShl(x.m, 65), k)
         IN  FRound(d.q, x.e - 65, d.r # 0)

\* x * y: the products of lines 25 (rolling_stats.cpp), 45 (the sliding
\* detector) and 159 (anomaly_heap.cpp).
FMul(x, y) ==
    IF x.m = <<>> \/ y.m = <<>> THEN FZero
    ELSE FRound(BigMul(x.m, y.m), x.e + y.e, FALSE)

\* The significand of x at the exponent e <= x.e.
FAt(x, e) == BigShl(x.m, x.e - e)

\* x + y: the += of line 25.
FAdd(x, y) ==
    IF x.m = <<>> THEN y
    ELSE IF y.m = <<>> THEN x
    ELSE LET e == Min(x.e, y.e)
         IN  FRound(BigAdd(FAt(x, e), FAt(y, e)), e, FALSE)

\* |x - y|: v - m of line 25 (it is squared), std::abs(series[i] - mean) and
\* std::abs(percentage - target_percentage) of line 151 of anomaly_heap.cpp.
FAbsSub(x, y) ==
    IF x.m = <<>> THEN y
    ELSE IF y.m = <<>> THEN x
    ELSE LET e == Min(x.e, y.e)
             a == FAt(x, e)
             b == FAt(y, e)
         IN  IF BigLess(a, b) THEN FRound(BigSub(b, a), e, FALSE)
                              ELSE FRound(BigSub(a, b), e, FALSE)

\* std::sqrt of line 27, correctly rounded.
FSqrt(x) ==
    IF x.m = <<>> THEN FZero
    ELSE LET k == IF x.e % 2 = 0 THEN 60 ELSE 61
             n == BigShl(x.m, k)
             r == BigSqrt(n)
         IN  FRound(r, (x.e - k) \div 2, BigMul(r, r) # n)

\* x > y, the comparison of line 45 and, turned round or negated, those of
\* lines 152 and 159 of anomaly_heap.cpp.
FGreater(x, y) ==
    IF x.m = <<>> THEN FALSE
    ELSE IF y.m = <<>> THEN TRUE
    ELSE IF x.e # y.e THEN x.e > y.e
    ELSE BigLess(y.m, x.m)

(***************************************************************************)
(* Doubles of the candidate loops.  A double d with 0.5 <= d < 4 is the    *)
(* pair <<hi, lo>> with d = (hi * 2^28 + lo) * 2^-57, 0 <= lo < 2^28.      *)
(***************************************************************************)
Two28 == 268435456

\* Spacing of the doubles around <<hi, lo>>, in units of 2^-57.
DUlp(hi) ==
    IF hi >= 4 * Two28 THEN 64
    ELSE IF hi >= 2 * Two28 THEN 32
    ELSE IF hi >= Two28 THEN 16
    ELSE 8

\* a - b in double arithmetic: the exact difference, rounded to the nearest
\* double, ties to the even one.
DSub(a, b) ==
    LET borrow == IF a[2] < b[2] THEN 1 ELSE 0
        hi     == a[1] - b[1] - borrow
        lo     == a[2] - b[2] + borrow * Two28
        u      == DUlp(hi)
        q      == lo \div u
        r      == lo % u
        up     == IF 2 * r > u \/ (2 * r = u /\ q % 2 = 1) THEN 1 ELSE 0
        lo2    == (q + up) * u
    IN  IF lo2 = Two28 THEN <<hi + 1, 0>> ELSE <<hi, lo2>>

\* a >= b on doubles.
DGeq(a, b) == a[1] > b[1] \/ (a[1] = b[1] /\ a[2] >= b[2])

\* The literals of lines 124 and 127.
D3_5 == <<7 * Two28, 0>>

D2_0 == <<4 * Two28, 0>>

D1_5 == <<3 * Two28, 0>>

\* 0.1 = 0x1999999999999A * 2^-56
D0_1 == <<53687091, 53687092>>

\* 0.05 = 0x1999999999999A * 2^-57
D0_05 == <<26843545, 161061274>>

\* The hundredths nearest to a double: 2.0999999999999988 is 210.
Hundredths(d) ==
    (d[1] \div (2 * Two28)) * 100
      + (((d[1] % (2 * Two28)) \div 512) * 100 + 524288) \div 1048576

\* for (double t = from; t >= to; t -= step) thresholds.push_back(t);
RECURSIVE Descend(_, _, _)
Descend(t, to, step) ==
    IF DGeq(t, to) THEN <<t>> \o Descend(DSub(t, step), to, step) ELSE <<>>

\* The double next to h hundredths (to within 2^-26).
Dec(h) == <<(h \div 100) * 2 * Two28 + (h % 100) * 5368709, 0>>

\* The candidate list as decimal arithmetic would build it: 3.5, 3.4, ..,
\* 2.0 and then 2.0, 1.95, .., 1.5.
thresholdsDecimal ==
    [k \in 1..16 |-> Dec(350 - 10 * (k - 1))]
      \o [k \in 1..11 |-> Dec(200 - 5 * (k - 1))]

\* The candidate list of detectAnomaliesHeapGranular, as doubles (lines
\* 121-129).  0.1 and 0.05 are doubles a little above the decimals, so the
\* first loop ends on 2.0999999999999988 after 15 values and the second on
\* 1.5499999999999996 after 10.
thresholds == Descend(D3_5, D2_0, D0_1) \o Descend(D2_0, D1_5, D0_05)


(***************************************************************************)
(* State.                                                                  *)
(*   call               the function that was called                       *)
(*   pc                 where the running function stands                  *)
(*   result             the vector the function returned                   *)
(*   earlier            what an earlier call with the same arguments       *)
(*                      returned, as <<vector>>; <<>> if there was none    *)
(* detectAnomaliesHeap / detectAnomaliesHeapGranular:                      *)
(*   data               the input series                                   *)
(*   deviation_pairs    the index column of deviation_pairs as the last    *)
(*                      run of the detector sorted it (empty before)       *)
(*   threshold          requested threshold of a direct call, hundredths   *)
(*   target_percentage  target rate of the search, thousandths             *)
(*   attempt            1-based position of the search in the candidates   *)
(*   best_threshold, best_anomalies, best_diff   the search's running best *)
(*   tried              what the search printed: per detector run, the     *)
(*                      candidate and what the detector found for it       *)
(* RollingStats / detectAnomaliesSlidingWindow:                            *)
(*   series, window_size, sw_threshold   the inputs (threshold as a       *)
(*                      fraction <<numerator, denominator>>)               *)
(*   i                  number of values consumed so far                   *)
(*   window             RollingStats::window                               *)
(*   anomaly_indices    indices flagged so far                             *)
(*   ub                 TRUE once the run has executed undefined behaviour *)
(***************************************************************************)
VARIABLES call, pc, result, earlier,
          data, deviation_pairs, threshold, target_percentage, attempt,
          best_threshold, best_anomalies, best_diff, tried,
          series, window_size, sw_threshold, i, window, anomaly_indices, ub

heapVars == <<data, deviation_pairs, threshold, target_percentage, attempt,
              best_threshold, best_anomalies, best_diff, tried>>

swVars == <<series, window_size, sw_threshold, i, window, anomaly_indices, ub>>

vars == <<call, pc, result, earlier, heapVars, swVars>>

(***************************************************************************)
(* detectAnomaliesHeap                                                     *)
(***************************************************************************)

\* Lines 21-25 and 36-40: twice the median of a sorted vector.
Median2(sorted) ==
    LET n == Len(sorted)
    IN  IF n % 2 = 0 THEN sorted[n \div 2] + sorted[n \div 2 + 1]
        ELSE 2 * sorted[n \div 2 + 1]

\* The doubled absolute values, in place of the deviations from the median.
Deviations2FromZero(d, m2) == [k \in 1..Len(d) |-> Abs(2 * d[k])]

\* Lines 28-32: |value - median| for every value, doubled (median = m2 / 2).
Deviations2(d, m2) == [k \in 1..Len(d) |-> Abs(2 * d[k] - m2)]

\* Lines 27-40: four times the MAD (the median of the halves of Deviations2).
Mad4(d) == Median2(SortAsc(Deviations2(d, Median2(SortAsc(d)))))

\* 1.4826 as the fraction MadScale / 10000 (line 43).
MadScale == 14826

\* Lines 43-48: robust_std = mad * 1.4826 is below 1e-10 and is replaced by
\* 1e-10.  mad * 1.4826 = mad4 * 14826 / 40000 with mad4 a natural number, so
\* it is below 1e-10 exactly when mad4 = 0.
RobustStdIsEpsilon(mad4) == mad4 * MadScale < 1

\* The comparison with a robust_std at the epsilon floor taken to fail for
\* every point, as if a zero MAD meant that nothing deviates.
DeviationExceedsNeverOnEpsilon(dev2, mad4, c, k) ==
    IF RobustStdIsEpsilon(mad4)
    THEN FALSE
    ELSE dev2 * 10000000 > c * k * mad4 * (MadScale \div 2)

\* normalized_deviation > (c / 100) * (k / 10), for the point whose doubled
\* absolute deviation is dev2 (lines 69, 88, 90).
\*   robust_std = mad4 * 14826 / 40000:
\*     (dev2 / 2) / robust_std > c * k / 1000
\*       <=>  dev2 * 10000000 > c * k * mad4 * (14826 / 2)
\*   robust_std = 1e-10:
\*     dev2 * 5 * 10^12 > c * k, which for dev2 >= 1 holds of every c * k the
\*     model can hold and for dev2 = 0 is 0 > c * k.
DeviationExceeds(dev2, mad4, c, k) ==
    IF RobustStdIsEpsilon(mad4)
    THEN IF dev2 = 0 THEN 0 > c * k ELSE TRUE
    ELSE dev2 * 10000000 > c * k * mad4 * (MadScale \div 2)

\* The floor of line 55, in hundredths.
MinThreshold == 200

\* Lines 52-57 with the floor at 1.0.
AdaptiveThresholdFloorAtOne(t) == IF t < 100 THEN Max(t, 100) ELSE t

\* Lines 52-57 without the floor: the requested threshold is used as it is.
AdaptiveThresholdNoFloor(t) == t

\* Lines 52-57.
AdaptiveThreshold(t) == IF t < MinThreshold THEN Max(t, MinThreshold) ELSE t

\* Line 79: static_cast<size_t>(data.size() * 0.05).  For every length the
\* model reaches the double product truncates to floor(n * 5 / 100).
MaxAnomalies(n) == (n * 5) \div 100

\* Line 88, first conjunct: deviation > adaptive_threshold.
OverThreshold(dev2, mad4, a) == DeviationExceeds(dev2, mad4, a, 10)

\* Line 90 without the factor 1.2.
OverBufferNoMargin(dev2, mad4, a) == DeviationExceeds(dev2, mad4, a, 10)

\* Line 90: deviation > adaptive_threshold * 1.2.
OverBuffer(dev2, mad4, a) == DeviationExceeds(dev2, mad4, a, 12)

\* Line 88 with the cap test off by one.
BelowCapOffByOne(selected, max) == selected <= max

\* Line 88, second conjunct: selected_anomalies < max_anomalies.
BelowCap(selected, max) == selected < max

\* Lines 83-97: the scan of the sorted pairs from position k on.  pairs is
\* the index column of the sorted deviation_pairs, dev2 the doubled absolute
\* deviation by position in the series; selected_anomalies is Len(found).
RECURSIVE Scan(_, _, _, _, _, _, _)
Scan(pairs, k, found, dev2, mad4, a, max) ==
    IF k > Len(pairs) THEN found
    ELSE LET index == pairs[k]
             dv    == dev2[index + 1]
         IN  IF OverThreshold(dv, mad4, a) /\ BelowCap(Len(found), max)
             THEN IF OverBuffer(dv, mad4, a)
                  THEN Scan(pairs, k + 1, Append(found, index), dev2, mad4, a, max)
                  ELSE Scan(pairs, k + 1, found, dev2, mad4, a, max)
             ELSE found

\* Lines 83-100: the scan of the pairs in the order `pairs`, and the sort of
\* what it selected.
Selected(d, t, pairs) ==
    LET m2   == Median2(SortAsc(d))
        dev2 == Deviations2(d, m2)
        mad4 == Median2(SortAsc(dev2))
    IN  SortAsc(Scan(pairs, 1, <<>>, dev2, mad4, AdaptiveThreshold(t),
                     MaxAnomalies(Len(d))))

(***************************************************************************)
(* Lines 73-75: std::sort with the comparator a.first > b.first, as the    *)
(* build's library carries it out (introsort: median-of-three quicksort    *)
(* down to runs of 16, heapsort when the depth limit is used up, then      *)
(* insertion sort).  It is not a stable sort.  The vector is the sequence  *)
(* a of the pairs' indices, dv the deviation by index (dv[x + 1] for the   *)
(* index x); first and last are positions in a, last exclusive.            *)
(***************************************************************************)
SortThreshold == 16

\* The comparator of line 75 on the pairs of the indices x and y.
Comp(dv, x, y) == dv[x + 1] > dv[y + 1]

Swap(a, p, q) == [a EXCEPT ![p] = a[q], ![q] = a[p]]

\* floor(log2(n)) for n >= 1.
RECURSIVE Lg(_)
Lg(n) == IF n <= 1 THEN 0 ELSE 1 + Lg(n \div 2)

\* The position among x, y, z that holds the median, as the library picks it.
MedianOf(a, dv, x, y, z) ==
    IF Comp(dv, a[x], a[y])
    THEN IF Comp(dv, a[y], a[z]) THEN y
         ELSE IF Comp(dv, a[x], a[z]) THEN z ELSE x
    ELSE IF Comp(dv, a[x], a[z]) THEN x
         ELSE IF Comp(dv, a[y], a[z]) THEN z ELSE y

RECURSIVE ScanUp(_, _, _, _)
ScanUp(a, dv, p, pivot) ==
    IF Comp(dv, a[p], a[pivot]) THEN ScanUp(a, dv, p + 1, pivot) ELSE p

RECURSIVE ScanDown(_, _, _, _)
ScanDown(a, dv, p, pivot) ==
    IF Comp(dv, a[pivot], a[p]) THEN ScanDown(a, dv, p - 1, pivot) ELSE p

\* The partition around the pair at pivot: the vector and the cut.
RECURSIVE UnguardedPartition(_, _, _, _, _)
UnguardedPartition(a, dv, first, last, pivot) ==
    LET f == ScanUp(a, dv, first, pivot)
        l == ScanDown(a, dv, last - 1, pivot)
    IN  IF f < l THEN UnguardedPartition(Swap(a, f, l), dv, f + 1, l, pivot)
        ELSE [a |-> a, cut |-> f]

\* The hole sinks to the larger child while there are two children.
RECURSIVE SiftDown(_, _, _, _, _)
SiftDown(a, dv, first, hole, len) ==
    IF hole < (len - 1) \div 2
    THEN LET right == 2 * (hole + 1)
             child == IF Comp(dv, a[first + right], a[first + right - 1])
                      THEN right - 1 ELSE right
         IN  SiftDown([a EXCEPT ![first + hole] = a[first + child]], dv, first,
                      child, len)
    ELSE [a |-> a, hole |-> hole]

\* The value rises from the hole while its parent compares before it.
RECURSIVE PushHeap(_, _, _, _, _, _)
PushHeap(a, dv, first, hole, top, val) ==
    IF hole > top /\ Comp(dv, a[first + (hole - 1) \div 2], val)
    THEN PushHeap([a EXCEPT ![first + hole] = a[first + (hole - 1) \div 2]],
                  dv, first, (hole - 1) \div 2, top, val)
    ELSE [a EXCEPT ![first + hole] = val]

AdjustHeap(a, dv, first, hole, len, val) ==
    LET s  == SiftDown(a, dv, first, hole, len)
        s2 == IF len % 2 = 0 /\ s.hole = (len - 2) \div 2
              THEN [a    |-> [s.a EXCEPT ![first + s.hole] =
                                            s.a[first + 2 * (s.hole + 1) - 1]],
                    hole |-> 2 * (s.hole + 1) - 1]
              ELSE s
    IN  PushHeap(s2.a, dv, first, s2.hole, hole, val)

\* make_heap's loop for the parents hi - 1 down to lo (the loop is split in
\* halves, the upper half first).
RECURSIVE MakeHeap(_, _, _, _, _, _)
MakeHeap(a, dv, first, len, lo, hi) ==
    IF a = <<>> \/ hi <= lo THEN a
    ELSE IF hi - lo = 1 THEN AdjustHeap(a, dv, first, lo, len, a[first + lo])
    ELSE LET mid == (lo + hi) \div 2
         IN  MakeHeap(MakeHeap(a, dv, first, len, mid, hi), dv, first, len, lo, mid)

\* One pop_heap: the pair at position last - 1 changes places with the top
\* of the heap first..last-2 and sinks into it.
PopHeap(a, dv, first, last) ==
    AdjustHeap([a EXCEPT ![last - 1] = a[first]], dv, first, 0,
               last - 1 - first, a[last - 1])

\* sort_heap's loop for last = hi down to lo + 1 (split in halves, the upper
\* half first).
RECURSIVE SortHeap(_, _, _, _, _)
SortHeap(a, dv, first, lo, hi) ==
    IF a = <<>> \/ hi <= lo THEN a
    ELSE IF hi - lo = 1 THEN PopHeap(a, dv, first, hi)
    ELSE LET mid == (lo + hi) \div 2
         IN  SortHeap(SortHeap(a, dv, first, mid, hi), dv, first, lo, mid)

\* The heapsort the library falls back on.
HeapSort(a, dv, first, last) ==
    IF last - first < 2 THEN a
    ELSE SortHeap(MakeHeap(a, dv, first, last - first, 0,
                           (last - first - 2) \div 2 + 1),
                  dv, first, first + 1, last)

RECURSIVE IntrosortLoop(_, _, _, _, _)
IntrosortLoop(a, dv, first, last, depth) ==
    IF last - first <= SortThreshold THEN a
    ELSE IF depth = 0 THEN HeapSort(a, dv, first, last)
    ELSE LET mid == first + (last - first) \div 2
             a1  == Swap(a, first, MedianOf(a, dv, first + 1, mid, last - 1))
             pt  == UnguardedPartition(a1, dv, first + 1, last, first)
         IN  IntrosortLoop(IntrosortLoop(pt.a, dv, pt.cut, last, depth - 1),
                           dv, first, pt.cut, depth - 1)

\* The value val moves down from position j + 1 past the pairs it compares
\* before.
RECURSIVE LinearInsert(_, _, _, _)
LinearInsert(a, dv, val, j) ==
    IF Comp(dv, val, a[j])
    THEN LinearInsert([a EXCEPT ![j + 1] = a[j]], dv, val, j - 1)
    ELSE [a EXCEPT ![j + 1] = val]

\* One step of the insertion sort of first..last-1, for the pair at position p.
InsertAt(a, dv, first, p) ==
    IF Comp(dv, a[p], a[first])
    THEN [k \in 1..Len(a) |->
             IF k = first THEN a[p]
             ELSE IF k > first /\ k <= p THEN a[k - 1] ELSE a[k]] \o <<>>
    ELSE LinearInsert(a, dv, a[p], p - 1)

\* __insertion_sort's loop for the positions lo..hi-1 of the run that starts
\* at first (the loop is split in halves).
RECURSIVE InsertionSort(_, _, _, _, _)
InsertionSort(a, dv, first, lo, hi) ==
    IF a = <<>> \/ hi <= lo THEN a
    ELSE IF hi - lo = 1 THEN InsertAt(a, dv, first, lo)
    ELSE LET mid == (lo + hi) \div 2
         IN  InsertionSort(InsertionSort(a, dv, first, lo, mid), dv, first, mid, hi)

\* __unguarded_insertion_sort's loop for the positions lo..hi-1.
RECURSIVE UnguardedInsertionSort(_, _, _, _)
UnguardedInsertionSort(a, dv, lo, hi) ==
    IF a = <<>> \/ hi <= lo THEN a
    ELSE IF hi - lo = 1 THEN LinearInsert(a, dv, a[lo], lo - 1)
    ELSE LET mid == (lo + hi) \div 2
         IN  UnguardedInsertionSort(UnguardedInsertionSort(a, dv, lo, mid), dv,
                                    mid, hi)

FinalInsertionSort(a, dv, first, last) ==
    IF last - first > SortThreshold
    THEN UnguardedInsertionSort(
             InsertionSort(a, dv, first, first + 1, first + SortThreshold),
             dv, first + SortThreshold, last)
    ELSE InsertionSort(a, dv, first, first + 1, last)

\* The index column std::sort leaves of the pairs <<dv[k], k - 1>>.
StdSort(dv) ==
    LET n == Len(dv)
        a == [k \in 1..n |-> k - 1] \o <<>>
    IN  IF n = 0 THEN <<>>
        ELSE FinalInsertionSort(IntrosortLoop(a, dv, 1, n + 1, 2 * Lg(n)),
                                dv, 1, n + 1)

\* Lines 63-75: deviation_pairs is built in the order of the series and
\* sorted; the index column of the sorted vector.  The pairs compare by
\* their deviation alone, and the doubled absolute deviations order them as
\* the normalized deviations do (one positive divisor for all).
Ranking(d) ==
    IF d = <<>> THEN <<>> ELSE StdSort(Deviations2(d, Median2(SortAsc(d))))

\* detectAnomaliesHeap(data, threshold), lines 7-111.
detectAnomaliesHeap(d, t) ==
    IF d = <<>> THEN <<>> ELSE Selected(d, t, Ranking(d))

(***************************************************************************)
(* Inputs of the heap detector and of the granular search.  A series is a  *)
(* bulk with spikes set into it: the flat bulk is constant (MAD 0), the    *)
(* noisy bulk cycles through -2..2 (MAD 1).                                *)
(***************************************************************************)
MaxLen == 80

ShortLens == {0, 1, 19, 20, 21, 40}

BulkKinds == {"flat", "noisy"}

Bulk(kind, x) == IF kind = "flat" THEN 0 ELSE (x % 5) - 2

\* Sets of spikes <<index, value>>.
SpikeLayouts ==
    { {},
      {<<3, 7>>},
      {<<3, 7>>, <<15, 7>>},
      {<<1, 4>>, <<5, 6>>},
      {<<1, 7>>, <<7, 7>>, <<11, 7>>, <<17, 4>>},
      {<<1, 7>>, <<5, 6>>, <<9, 5>>, <<13, 4>>, <<17, 4>>} }

LongLayouts ==
    { {},
      {<<1, 7>>, <<7, 7>>, <<11, 7>>, <<17, 4>>},
      {<<1, 7>>, <<5, 6>>, <<9, 5>>, <<13, 4>>, <<17, 4>>} }

Spiked(n, kind, sp) ==
    [k \in 1..n |->
        IF \E s \in sp : s[1] = k - 1
        THEN (CHOOSE s \in sp : s[1] = k - 1)[2]
        ELSE Bulk(kind, k - 1)] \o <<>>

\* Series whose values are all the same, and not zero.
ConstantSeries == {[k \in 1..n |-> 7] \o <<>> : n \in ShortLens \ {0}}

\* A hundred values, all 1 except one 100 at index 50.
ScenarioB == [k \in 1..100 |-> IF k = 51 THEN 100 ELSE 1] \o <<>>

\* Series on which a rate of the search meets a bound of line 159, or two
\* rates lie equally far from the target, in exact arithmetic: 1 of 25 is
\* 0.8 * 0.05, and 1 and 2 of 60 are 1/120 away from 0.025.
RateTieSeries ==
    { Spiked(25, "noisy", {<<3, 7>>}),
      Spiked(60, "noisy", {<<1, 7>>, <<5, 6>>}) }

HeapSeries ==
    {Spiked(n, kind, sp) : n \in ShortLens, kind \in BulkKinds, sp \in SpikeLayouts}
      \cup {Spiked(MaxLen, "noisy", sp) : sp \in LongLayouts}
      \cup ConstantSeries
      \cup {ScenarioB}
      \cup RateTieSeries

\* Requested thresholds of a direct call, in hundredths.
ThresholdInputs == {-100, 0, 100, 200, 250, 300, 350, 500}

\* Target rates of the search, in thousandths.
TargetInputs == {0, 25, 35, 45, 50, 80, 1000}

swIdle ==
    /\ series = <<>>
    /\ window_size = 0
    /\ sw_threshold = <<0, 1>>
    /\ i = 0
    /\ window = <<>>
    /\ anomaly_indices = <<>>
    /\ ub = FALSE

searchIdle ==
    /\ attempt = 0
    /\ best_threshold = D3_5
    /\ best_anomalies = <<>>
    /\ best_diff = [max |-> TRUE, num |-> FZero]
    /\ tried = <<>>

(***************************************************************************)
(* A direct call of detectAnomaliesHeap.                                   *)
(***************************************************************************)
InitHeap ==
    /\ call = "detectAnomaliesHeap"
    /\ earlier = <<>>
    /\ pc = "entry"
    /\ result = <<>>
    /\ data \in HeapSeries
    /\ deviation_pairs = <<>>
    /\ threshold \in ThresholdInputs
    /\ target_percentage = 0
    /\ searchIdle
    /\ swIdle

HeapCall ==
    /\ call = "detectAnomaliesHeap"
    /\ pc = "entry"
    /\ deviation_pairs' = Ranking(data)
    /\ result' = detectAnomaliesHeap(data, threshold)
    /\ pc' = "returned"
    /\ UNCHANGED <<call, earlier, data, threshold, target_percentage, attempt,
                   best_threshold, best_anomalies, best_diff, tried, swVars>>

NextHeap == HeapCall

SpecHeap == InitHeap /\ [][NextHeap]_vars

(***************************************************************************)
(* detectAnomaliesHeapGranular                                             *)
(***************************************************************************)

\* The double of a target rate given in thousandths: the nearest double to
\* the decimal, as the compiler reads a literal such as 0.05.
TargetRate(target) == FDivInt(FFromInt(target), 1000)

\* The literals 1.2 and 0.8 of line 159.
F1_2 == FDivInt(FFromInt(12), 10)

F0_8 == FDivInt(FFromInt(8), 10)

\* Line 145: percentage = static_cast<double>(anomalies.size()) / data.size().
Percentage(count, n) == FDivInt(FFromInt(count), n)

\* Line 151: diff = std::abs(percentage - target_percentage), a double.
Diff(count, n, target) == FAbsSub(Percentage(count, n), TargetRate(target))

\* Line 152 with the comparison turned round: the farthest is kept.
CloserFlipped(diff, best) == best.max \/ FGreater(diff, best.num)

\* Line 152: diff < best_diff, where best_diff starts at the largest double.
Closer(diff, best) == best.max \/ FGreater(best.num, diff)

\* Line 159 without its second half: only the upper end of the range is
\* tested.
InRangeUpperOnly(count, n, target) ==
    ~FGreater(Percentage(count, n), FMul(TargetRate(target), F1_2))

\* Line 159: percentage <= target * 1.2 && percentage >= target * 0.8, the
\* two products rounded to doubles.
InRange(count, n, target) ==
    LET percentage == Percentage(count, n)
        rate       == TargetRate(target)
    IN  /\ ~FGreater(percentage, FMul(rate, F1_2))
        /\ ~FGreater(FMul(rate, F0_8), percentage)

InitGranular ==
    /\ call = "detectAnomaliesHeapGranular"
    /\ earlier = <<>>
    /\ pc = "entry"
    /\ result = <<>>
    /\ data \in HeapSeries
    /\ deviation_pairs = <<>>
    /\ threshold = 0
    /\ target_percentage \in TargetInputs
    /\ searchIdle
    /\ swIdle

\* Lines 116-118 left out: the search is entered on an empty series too.
GranularEmptySearches ==
    /\ call = "detectAnomaliesHeapGranular"
    /\ pc = "entry"
    /\ data = <<>>
    /\ pc' = "loop"
    /\ attempt' = 1
    /\ UNCHANGED <<call, earlier, result, data, deviation_pairs, threshold, target_percentage,
                   best_threshold, best_anomalies, best_diff, tried, swVars>>

\* Lines 116-118.
GranularEmpty ==
    /\ call = "detectAnomaliesHeapGranular"
    /\ pc = "entry"
    /\ data = <<>>
    /\ result' = <<>>
    /\ pc' = "returned"
    /\ UNCHANGED <<call, earlier, heapVars, swVars>>

\* Lines 120-139: the candidates are built and the running best is set up.
GranularBegin ==
    /\ call = "detectAnomaliesHeapGranular"
    /\ pc = "entry"
    /\ data # <<>>
    /\ best_threshold' = D3_5
    /\ best_anomalies' = <<>>
    /\ best_diff' = [max |-> TRUE, num |-> FZero]
    /\ attempt' = 1
    /\ pc' = "loop"
    /\ UNCHANGED <<call, earlier, result, data, deviation_pairs, threshold, target_percentage,
                   tried, swVars>>

\* Lines 140-156: one candidate is tried, the detector leaving its sorted
\* pairs behind, and the running best updated.
TryCandidate ==
    LET t     == thresholds[attempt]
        found == detectAnomaliesHeap(data, Hundredths(t))
        diff  == Diff(Len(found), Len(data), target_percentage)
    IN  /\ deviation_pairs' = Ranking(data)
        /\ tried' = Append(tried, [threshold |-> t, anomalies |-> found])
        /\ IF Closer(diff, best_diff)
           THEN /\ best_diff' = [max |-> FALSE, num |-> diff]
                /\ best_threshold' = t
                /\ best_anomalies' = found
           ELSE UNCHANGED <<best_diff, best_threshold, best_anomalies>>

\* Lines 140-161: the candidate's rate is in range and the loop is left.
TryAccept ==
    /\ call = "detectAnomaliesHeapGranular"
    /\ pc = "loop"
    /\ attempt <= Len(thresholds)
    /\ TryCandidate
    /\ InRange(Len(tried'[Len(tried')].anomalies), Len(data), target_percentage)
    /\ pc' = "break"
    /\ UNCHANGED <<call, earlier, result, data, threshold, target_percentage,
                   attempt, swVars>>

\* Lines 140-167: the candidate's rate is out of range; on to the next one.
TryNext ==
    /\ call = "detectAnomaliesHeapGranular"
    /\ pc = "loop"
    /\ attempt <= Len(thresholds)
    /\ TryCandidate
    /\ ~InRange(Len(tried'[Len(tried')].anomalies), Len(data), target_percentage)
    /\ attempt' = attempt + 1
    /\ UNCHANGED <<call, earlier, pc, result, data, threshold,
                   target_percentage, swVars>>

\* Lines 169-170, after the break or after the last candidate.
GranularReturn ==
    /\ call = "detectAnomaliesHeapGranular"
    /\ pc = "break" \/ (pc = "loop" /\ attempt > Len(thresholds))
    /\ result' = best_anomalies
    /\ pc' = "returned"
    /\ UNCHANGED <<call, earlier, heapVars, swVars>>

NextGranular ==
    \/ GranularEmpty
    \/ GranularBegin
    \/ TryAccept
    \/ TryNext
    \/ GranularReturn

SpecGranular == InitGranular /\ [][NextGranular]_vars

(***************************************************************************)
(* RollingStats                                                            *)
(***************************************************************************)

\* window.size() == window_size (lines 8 and 31).  The int window_size is
\* converted to size_t: a negative one becomes a value no size reaches.
SizeIsWindowSize(w, W) == W >= 0 /\ Len(w) = W

\* window.pop_front() (line 9) is defined only on a non-empty deque.
PopFrontDefined(w) == w # <<>>

\* Lines 7-12 without the eviction.
addNoEvict(w, W, value) == Append(w, value)

\* RollingStats::add, lines 7-12, where pop_front is defined.
add(w, W, value) ==
    IF SizeIsWindowSize(w, W) THEN Append(Tail(w), value) ELSE Append(w, value)

\* Line 31 with <= for ==.
readyEarly(w, W) == W >= 0 /\ Len(w) <= W

\* RollingStats::ready, lines 30-32.
ready(w, W) == SizeIsWindowSize(w, W)

RECURSIVE Sum(_)
Sum(w) == IF w = <<>> THEN 0 ELSE Head(w) + Sum(Tail(w))

\* Lines 14-18 over the values before the newest one.
meanWithoutLast(w) ==
    IF Len(w) <= 1 THEN <<Sum(w), Max(Len(w), 1)>>
    ELSE <<Sum(SubSeq(w, 1, Len(w) - 1)), Len(w) - 1>>

\* RollingStats::mean, lines 14-18, as the fraction <<numerator, denominator>>.
mean(w) == IF w = <<>> THEN <<0, 1>> ELSE <<Sum(w), Len(w)>>

\* Line 27 with the divisor window.size() - 1 of a sample deviation.
stddev2Sample(w) ==
    IF w = <<>> THEN <<0, 1>>
    ELSE LET n == Len(w)
             S == Sum(w)
         IN  <<Sum([k \in 1..n |-> (n * w[k] - S) * (n * w[k] - S)] \o <<>>),
               n * n * (n - 1)>>

\* RollingStats::stddev, lines 20-28: the fraction whose square root it
\* returns.  With m = S / n the sum of (v - m)^2 is the sum of (n v - S)^2
\* over n^2, and the variance that sum over n.
stddev2(w) ==
    IF w = <<>> THEN <<0, 1>>
    ELSE LET n == Len(w)
             S == Sum(w)
         IN  <<Sum([k \in 1..n |-> (n * w[k] - S) * (n * w[k] - S)] \o <<>>),
               n * n * n>>

\* |v - m| in doubles, for a value v and the mean m of a window of sum s.
FAbsDev(v, s, m) ==
    IF (v >= 0 /\ s >= 0) \/ (v <= 0 /\ s <= 0)
    THEN FAbsSub(FFromInt(Abs(v)), m)
    ELSE FAdd(FFromInt(Abs(v)), m)

\* Lines 23-26 of rolling_stats.cpp: sq_sum after the values k.. of w.
RECURSIVE FSqSumFrom(_, _, _, _, _)
FSqSumFrom(w, s, m, k, acc) ==
    IF k > Len(w) THEN acc
    ELSE LET d == FAbsDev(w[k], s, m)
         IN  FSqSumFrom(w, s, m, k + 1, FAdd(acc, FMul(d, d)))

\* Line 45 of detectAnomaliesSlidingWindow as the doubles decide it, for a
\* threshold t >= 0 and the window w that holds x.
DoubleDeviates(x, t, w) ==
    LET s  == Sum(w)
        m  == FDivInt(FFromInt(Abs(s)), Len(w))
        sd == FSqrt(FDivInt(FSqSumFrom(w, s, m, 1, FZero), Len(w)))
        tf == FDivInt(FFromInt(t[1]), t[2])
    IN  FGreater(FAbsDev(x, s, m), FMul(tf, sd))

\* Line 45 with < for >.
DeviatesFlipped(x, t, m, v) ==
    LET a == Abs(x * m[2] - m[1])
    IN  IF t[1] >= 0
        THEN a * a * t[2] * t[2] * v[2] < t[1] * t[1] * v[1] * m[2] * m[2]
        ELSE FALSE

\* Line 45: std::abs(series[i] - mean) > threshold * stddev, for the value x,
\* the threshold t = t[1] / t[2] (t[2] > 0), the mean m and the variance v.
\* With lhs = |x - m| >= 0 and rhs = t * sqrt(v):
\*   t >= 0:  lhs > rhs  <=>  lhs^2 > t^2 * v;
\*   t <  0:  rhs <= 0, and lhs > rhs unless both are 0.
Deviates(x, t, m, v) ==
    LET a == Abs(x * m[2] - m[1])
    IN  IF t[1] >= 0
        THEN a * a * t[2] * t[2] * v[2] > t[1] * t[1] * v[1] * m[2] * m[2]
        ELSE a > 0 \/ v[1] > 0

\* Line 45 is decided by rounding only when the exact values of its two sides
\* are equal and not 0: |x - m| = t * sqrt(v) > 0.  (When |x - m| is exactly
\* 0 the double mean is x itself and the test fails in doubles as well; when
\* the two sides differ, they differ by far more than the doubles' error.)
Ties(x, t, m, v) ==
    LET a == Abs(x * m[2] - m[1])
    IN  /\ t[1] >= 0
        /\ a > 0
        /\ a * a * t[2] * t[2] * v[2] = t[1] * t[1] * v[1] * m[2] * m[2]

\* Line 45 on the window w that holds x: the exact comparison, and at a tie
\* the comparison of the doubles.
Flagged(x, t, w) ==
    IF Ties(x, t, mean(w), stddev2(w)) THEN DoubleDeviates(x, t, w)
    ELSE Deviates(x, t, mean(w), stddev2(w))

(***************************************************************************)
(* detectAnomaliesSlidingWindow                                            *)
(***************************************************************************)

\* The loop body with the test of line 45 made before the add of line 39:
\* the value is held against the window of the values before it.
LoopBodyTestBeforeAdd(w, flagged, W, t, x, idx) ==
    [window |-> add(w, W, x),
     anomaly_indices |->
         IF ready(w, W) /\ Flagged(x, t, w)
         THEN Append(flagged, idx)
         ELSE flagged]

\* Lines 39-48: one pass of the loop body for the value x at index idx, from
\* the window w and the indices flagged so far.
LoopBody(w, flagged, W, t, x, idx) ==
    LET w2 == add(w, W, x)
    IN  [window |-> w2,
         anomaly_indices |->
             IF ready(w2, W) /\ Flagged(x, t, w2)
             THEN Append(flagged, idx)
             ELSE flagged]

\* The whole function (lines 32-52) on a window size for which every
\* pop_front is defined: the loop body, folded over the series.
RECURSIVE RunFrom(_, _, _, _, _, _)
RunFrom(s, W, t, k, w, flagged) ==
    IF k >= Len(s) THEN flagged
    ELSE LET st == LoopBody(w, flagged, W, t, s[k + 1], k)
         IN  RunFrom(s, W, t, k + 1, st.window, st.anomaly_indices)

detectAnomaliesSlidingWindow(s, W, t) == RunFrom(s, W, t, 0, <<>>, <<>>)

(***************************************************************************)
(* Inputs of the sliding detector: every series over SeriesValues up to    *)
(* MaxShort values, and a few longer ones that end in a spike.             *)
(***************************************************************************)
MaxShort == 4

SeriesValues == {0, 1, 10}

Seqs(S, n) == UNION {[1..k -> S] : k \in 0..n}

Spike(n, v) == [k \in 1..n |-> IF k = n THEN v ELSE 0] \o <<>>

ScenarioA == Spike(11, 10)

\* Series whose last value lies exactly t = 2 standard deviations from the
\* mean of a window of 5: four equal values and one other.
TieSeries ==
    {<<12, 12, 12, 12, 13>>, <<12, 12, 12, 12, 15>>, <<3, 3, 3, 3, 3, 4>>,
     Spike(5, 10)}

SlidingSeries ==
    {s \o <<>> : s \in Seqs(SeriesValues, MaxShort)}
      \cup {ScenarioA, Spike(6, 10), Spike(7, 1), <<1, 0, 0, 0, 0, 0, 10, 0>>}
      \cup TieSeries

WindowSizes == {-1, 0, 1, 2, 3, 5, 6}

ThresholdFractions == {<<-1, 1>>, <<0, 1>>, <<1, 2>>, <<1, 1>>, <<2, 1>>, <<5, 2>>}

heapIdle ==
    /\ data = <<>>
    /\ deviation_pairs = <<>>
    /\ threshold = 0
    /\ target_percentage = 0
    /\ searchIdle

InitSliding ==
    /\ call = "detectAnomaliesSlidingWindow"
    /\ earlier = <<>>
    /\ pc = "entry"
    /\ result = <<>>
    /\ series \in SlidingSeries
    /\ window_size \in WindowSizes
    /\ sw_threshold \in ThresholdFractions
    /\ i = 0
    /\ window = <<>>
    /\ anomaly_indices = <<>>
    /\ ub = FALSE
    /\ heapIdle

\* Lines 35-38 with the statistics declared static: the deque of an earlier
\* call is still there when the loop is entered.
SlideEnterStaticStats ==
    /\ call = "detectAnomaliesSlidingWindow"
    /\ pc = "entry"
    /\ anomaly_indices' = <<>>
    /\ i' = 0
    /\ ub' = FALSE
    /\ pc' = "loop"
    /\ UNCHANGED <<call, earlier, result, heapVars, series, window_size, sw_threshold,
                   window>>

\* Lines 35-38, up to the first test of the loop: anomaly_indices is
\* constructed empty, RollingStats stats(window_size) is constructed with an
\* empty deque (rolling_stats.cpp line 5), and i starts at 0.
SlideEnter ==
    /\ call = "detectAnomaliesSlidingWindow"
    /\ pc = "entry"
    /\ anomaly_indices' = <<>>
    /\ window' = <<>>
    /\ i' = 0
    /\ ub' = FALSE
    /\ pc' = "loop"
    /\ UNCHANGED <<call, earlier, result, heapVars, series, window_size, sw_threshold>>

\* Lines 38-49: one iteration whose pop_front, if any, is defined.
SlideStep ==
    /\ call = "detectAnomaliesSlidingWindow"
    /\ pc = "loop"
    /\ i < Len(series)
    /\ ~ub
    /\ SizeIsWindowSize(window, window_size) => PopFrontDefined(window)
    /\ LET st == LoopBody(window, anomaly_indices, window_size, sw_threshold,
                          series[i + 1], i)
       IN  /\ window' = st.window
           /\ anomaly_indices' = st.anomaly_indices
    /\ i' = i + 1
    /\ UNCHANGED <<call, earlier, pc, result, heapVars, series, window_size, sw_threshold, ub>>

\* Lines 38-49 with window_size = 0: add() pops the front of an empty deque,
\* which is undefined behaviour.  From there on every iteration may or may
\* not flag its index; what the deque holds is no longer read by any defined
\* step, and the model leaves it empty.
SlideUndefined ==
    /\ call = "detectAnomaliesSlidingWindow"
    /\ pc = "loop"
    /\ i < Len(series)
    /\ ub \/ (SizeIsWindowSize(window, window_size) /\ ~PopFrontDefined(window))
    /\ ub' = TRUE
    /\ window' = <<>>
    /\ anomaly_indices' \in {anomaly_indices, Append(anomaly_indices, i)}
    /\ i' = i + 1
    /\ UNCHANGED <<call, earlier, pc, result, heapVars, series, window_size, sw_threshold>>

\* Line 51.
SlideReturn ==
    /\ call = "detectAnomaliesSlidingWindow"
    /\ pc = "loop"
    /\ i = Len(series)
    /\ result' = anomaly_indices
    /\ pc' = "returned"
    /\ UNCHANGED <<call, earlier, heapVars, swVars>>

NextSliding ==
    \/ SlideEnter
    \/ SlideStep
    \/ SlideUndefined
    \/ SlideReturn

SpecSliding == InitSliding /\ [][NextSliding]_vars

(***************************************************************************)
(* The engine: a call of any of its three functions.                       *)
(***************************************************************************)
Init == InitHeap \/ InitGranular \/ InitSliding

Next == NextHeap \/ NextGranular \/ NextSliding

Spec == Init /\ [][Next]_vars

(***************************************************************************)
(* The same call made a second time.  When a call has returned, the caller *)
(* keeps what it returned and calls the function again with the same       *)
(* arguments.  Nothing else is touched: what the first call left in its    *)
(* locals, and what it printed, is still there when the second call is     *)
(* entered, and the second call runs the code of the function from its     *)
(* first line, the sort of line 74 included.                               *)
(***************************************************************************)
CallAgain ==
    /\ pc = "returned"
    /\ earlier = <<>>
    /\ earlier' = <<result>>
    /\ pc' = "entry"
    /\ UNCHANGED <<call, result, heapVars, swVars>>

\* The calls that are made twice: those on the series of at most 40 values
\* whose behaviour is defined (a window size of 0 is not among them).
InitTwice ==
    /\ Init
    /\ Len(data) <= 40
    /\ call = "detectAnomaliesSlidingWindow" => window_size # 0

\* The steps of the three functions on these calls, and the second call.
NextTwice ==
    \/ NextHeap
    \/ NextGranular
    \/ SlideEnter
    \/ SlideStep
    \/ SlideReturn
    \/ CallAgain

SpecTwice == InitTwice /\ [][NextTwice]_vars

\* The control position of a search that has not returned moves: to the next
\* candidate (line 140), out of the loop (line 160) or to the caller (line
\* 170).  Every step of NextGranular is such a move, and one is possible in
\* every state that has not returned.
GranularRuns ==
    /\ call = "detectAnomaliesHeapGranular"
    /\ pc # "returned"
    /\ \E p \in {"loop", "break", "returned"}, a \in {attempt, attempt + 1} :
          /\ <<p, a>> # <<pc, attempt>>
          /\ pc' = p
          /\ attempt' = a

\* The function is sequential code that runs to completion: a search that
\* has not returned takes its next step.
SpecGranularFair == SpecGranular /\ WF_<<pc, attempt>>(GranularRuns)

(***************************************************************************)
(* Properties.                                                             *)
(***************************************************************************)
RangeOf(q) == {q[k] : k \in 1..Len(q)}

\* The indices that deviate by more than 1.2 times the adaptive threshold.
Qualifying(d, t) ==
    LET dev2 == Deviations2(d, Median2(SortAsc(d)))
        mad4 == Mad4(d)
    IN  {x \in 0..(Len(d) - 1) :
            OverBuffer(dev2[x + 1], mad4, AdaptiveThreshold(t))}

\* C1: for every series of length n and every requested threshold,
\* detectAnomaliesHeap returns at most floor(0.05 * n) indices, and none at
\* all when n < 20.
C1_AtMostFivePercent ==
    (call = "detectAnomaliesHeap" /\ pc = "returned") =>
        /\ 20 * Len(result) <= Len(data)
        /\ Len(data) < 20 => result = <<>>

\* A call where the cap decides: it returns floor(n / 20) >= 1 indices while
\* more points than that qualify.
C1_Witness ==
    /\ call = "detectAnomaliesHeap"
    /\ pc = "returned"
    /\ Len(result) >= 1
    /\ Len(result) = Len(data) \div 20
    /\ Cardinality(Qualifying(data, threshold)) > Len(result)

\* The search left its loop by the break of line 161.
AcceptedEarly ==
    /\ call = "detectAnomaliesHeapGranular"
    /\ pc \in {"break", "returned"}
    /\ data # <<>>
    /\ attempt <= Len(thresholds)

\* 0.8 * target <= count / n <= 1.2 * target in exact arithmetic, target in
\* thousandths.
RateWithinTolerance(count, n, target) ==
    8 * target * n <= 10000 * count /\ 10000 * count <= 12 * target * n

\* C2: when the search stops by early acceptance at candidate c, what it
\* holds and returns is the set the detector produced for c, with c as the
\* chosen threshold, and the rate of that set is within [0.8, 1.2] * target.
C2_AcceptedIsCurrentAndInRange ==
    AcceptedEarly =>
        LET last == tried[Len(tried)]
        IN  /\ best_anomalies = last.anomalies
            /\ best_threshold = last.threshold
            /\ pc = "returned" => result = last.anomalies
            /\ RateWithinTolerance(Len(best_anomalies), Len(data),
                                   target_percentage)

\* An acceptance after candidates whose set was another one.
C2_Witness ==
    /\ AcceptedEarly
    /\ pc = "returned"
    /\ Len(tried) >= 2
    /\ result # <<>>
    /\ tried[1].anomalies # result

\* The decimals the candidate list is described by, in hundredths.
NominalCandidates ==
    {350 - 10 * k : k \in 0..15} \cup {200 - 5 * k : k \in 0..10}

\* Every detector run of the search is for the next entry of the candidate
\* list, the entries tried fall strictly, each is one of the nominal
\* candidates and there are no more runs than the 16 + 11 entries.
SearchBounded ==
    /\ Len(tried) <= Len(thresholds)
    /\ Len(thresholds) <= 16 + 11
    /\ \A k \in 1..Len(tried) :
          /\ tried[k].threshold = thresholds[k]
          /\ Hundredths(tried[k].threshold) \in NominalCandidates
    /\ \A j, k \in 1..Len(tried) :
          j < k => ~DGeq(tried[k].threshold, tried[j].threshold)
    /\ pc = "loop" => Len(tried) = attempt - 1

\* C3: on a non-empty series the search runs the detector at most once per
\* entry of the finite descending candidate list, never twice for the same
\* candidate, and it terminates.
C3_SearchTerminates == []SearchBounded /\ <>(pc = "returned")

\* A search that tried every candidate, once, and returned.
C3_Witness ==
    /\ call = "detectAnomaliesHeapGranular"
    /\ pc = "returned"
    /\ Len(tried) = Len(thresholds)
    /\ Len(tried) >= 25

\* The exact |rate - target| of the k-th run, as the numerator over 1000 * n.
RateDiff(k) ==
    Abs(1000 * Len(tried[k].anomalies) - target_percentage * Len(data))

RateInRange(k) ==
    RateWithinTolerance(Len(tried[k].anomalies), Len(data), target_percentage)

\* The earliest run among those of the least |rate - target|.
FirstClosest ==
    CHOOSE k \in 1..Len(tried) :
        /\ \A j \in 1..Len(tried) : RateDiff(k) <= RateDiff(j)
        /\ \A j \in 1..(k - 1) : RateDiff(j) > RateDiff(k)

\* C4: if no candidate has its rate in [0.8, 1.2] * target, the search
\* tries every candidate and returns the set of the candidate of least
\* |rate - target|, the earliest (highest) one among equals.  Rates and
\* distances are the exact ones here; the code takes the later of two
\* candidates equally far from the target when the double of its distance
\* is the smaller one (1 and 2 of 60 for the target 0.025).
C4_ExhaustedReturnsFirstClosest ==
    ( /\ call = "detectAnomaliesHeapGranular"
      /\ pc = "returned"
      /\ data # <<>>
      /\ \A k \in 1..Len(tried) : ~RateInRange(k) ) =>
        /\ Len(tried) = Len(thresholds)
        /\ result = tried[FirstClosest].anomalies
        /\ best_threshold = tried[FirstClosest].threshold

\* C5: candidates are tried in list order; nothing is tried after the first
\* candidate whose rate is in range, and that candidate's set is the result.
\* The range is the exact one here; the code goes on after a candidate whose
\* rate is 0.8 * target where the double product is above the rate (1 of 25
\* for the target 0.05).
C5_HaltsAtFirstInRange ==
    call = "detectAnomaliesHeapGranular" =>
        /\ \A k \in 1..Len(tried) : tried[k].threshold = thresholds[k]
        /\ \A k \in 1..(Len(tried) - 1) : ~RateInRange(k)
        /\ (pc = "returned" /\ tried # <<>> /\ RateInRange(Len(tried))) =>
               result = tried[Len(tried)].anomalies

Sliding == call = "detectAnomaliesSlidingWindow"

\* C6: for every series and every window size W >= 1 no index below W - 1
\* is flagged by detectAnomaliesSlidingWindow, so a series shorter than W
\* yields an empty output.
C6_FirstIndicesNeverFlagged ==
    (Sliding /\ window_size >= 1) =>
        /\ \A k \in 1..Len(anomaly_indices) :
              anomaly_indices[k] >= window_size - 1
        /\ pc = "returned" =>
              /\ result = anomaly_indices
              /\ Len(series) < window_size => result = <<>>

\* A call with W >= 2 that flags the first index it can flag.
C6_Witness ==
    /\ Sliding
    /\ pc = "returned"
    /\ window_size >= 2
    /\ result # <<>>
    /\ result[1] = window_size - 1

\* C7: for W >= 1, after k add() calls the window holds the last min(k, W)
\* added values in arrival order, its size stays within 0..W, and ready()
\* is true exactly when k >= W.
C7_WindowHoldsLastValues ==
    (Sliding /\ window_size >= 1) =>
        /\ window = SubSeq(series, i - Min(i, window_size) + 1, i)
        /\ 0 <= Len(window) /\ Len(window) <= window_size
        /\ ready(window, window_size) <=> i >= window_size

\* More values added than the window holds: the oldest have been evicted,
\* and the first value of the series differs from the oldest one kept.
C7_Witness ==
    /\ Sliding
    /\ window_size >= 2
    /\ i > window_size
    /\ Len(window) = window_size
    /\ window[1] # series[1]

\* A configuration the specification calls invalid.
InvalidConfiguration ==
    \/ Sliding /\ (window_size < 1 \/ sw_threshold[1] <= 0)
    \/ call = "detectAnomaliesHeap" /\ threshold <= 0
    \/ call = "detectAnomaliesHeapGranular"
         /\ (target_percentage <= 0 \/ target_percentage >= 1000)

\* C8: an invalid configuration is rejected before any window update or
\* detection step: no value is added to a window, no index is flagged, no
\* candidate is tried and the call does not return a label set.
C8_InvalidConfigurationRejected ==
    InvalidConfiguration =>
        /\ i = 0
        /\ window = <<>>
        /\ anomaly_indices = <<>>
        /\ tried = <<>>
        /\ pc # "returned"

ScenarioACall ==
    /\ Sliding
    /\ pc = "returned"
    /\ series = ScenarioA
    /\ window_size = 3
    /\ sw_threshold = <<2, 1>>

\* C9, as stated: on [0,0,0,0,0,0,0,0,0,0,10] with window_size = 3 and
\* threshold = 2.0 exactly the final index 10 is flagged.
C9_ScenarioAFlagsLastIndex == ScenarioACall => result = <<10>>

\* C9, amended: on [0,0,0,0,0,0,0,0,0,0,10] with window_size = 3 and
\* threshold = 2.0 no index is flagged.  The last window is (0, 0, 10):
\* mean 10/3, population stddev sqrt(200/9), and |10 - 10/3| is sqrt(2)
\* times that stddev, which is not above 2.
C9_ScenarioAFlagsNothing == ScenarioACall => result = <<>>

\* The call of scenario A has returned, with every value of the series
\* added to the window.
C9_Witness == ScenarioACall /\ i = 11 /\ window = <<0, 0, 10>>

\* t1 <= t2, both positive fractions.
ThresholdLeq(t1, t2) == t1[1] * t2[2] <= t2[1] * t1[2]

\* C10: for a fixed series and window size and thresholds 0 < t1 <= t2, the
\* set flagged at t2 is a subset of the set flagged at t1.
C10_FlaggedSetShrinks ==
    (Sliding /\ pc = "returned" /\ ~ub /\ sw_threshold[1] > 0) =>
        \A t2 \in ThresholdFractions :
            ThresholdLeq(sw_threshold, t2) =>
                RangeOf(detectAnomaliesSlidingWindow(series, window_size, t2))
                    \subseteq RangeOf(result)

\* A call that flags some index which a larger threshold no longer flags,
\* while that larger threshold still flags another.
C10_Witness ==
    /\ Sliding
    /\ pc = "returned"
    /\ ~ub
    /\ sw_threshold[1] > 0
    /\ \E t2 \in ThresholdFractions :
          LET at2 == RangeOf(detectAnomaliesSlidingWindow(series, window_size, t2))
          IN  /\ ThresholdLeq(sw_threshold, t2)
              /\ at2 # {}
              /\ at2 # RangeOf(result)

Heap == call = "detectAnomaliesHeap"

Granular == call = "detectAnomaliesHeapGranular"

\* d > 1.2 * c for the normalized deviation d of a point whose doubled
\* absolute deviation is dev2, c a threshold in hundredths: d is
\* (dev2 / 2) / (1.4826 * mad4 / 4), or dev2 / (2 * epsilon) when the MAD is 0.
BeyondBuffer(dev2, mad4, c) ==
    IF mad4 = 0
    THEN dev2 > 0 \/ c < 0
    ELSE dev2 * 10000000 > c * 12 * mad4 * 7413

\* C11: for every requested threshold t <= 2.0, detectAnomaliesHeap(data, t)
\* returns the label set of detectAnomaliesHeap(data, 2.0).
C11_FlooredAtTwo ==
    (Heap /\ pc = "returned" /\ threshold <= 200) =>
        result = detectAnomaliesHeap(data, 200)

\* A call with a threshold below 2.0 that flags a point, has room under the
\* cap, and leaves out a point that deviates by more than 1.2 times the
\* requested threshold.
C11_Witness ==
    /\ Heap
    /\ pc = "returned"
    /\ threshold < 200
    /\ result # <<>>
    /\ Len(result) < Len(data) \div 20
    /\ LET dev2 == Deviations2(data, Median2(SortAsc(data)))
       IN  \E x \in 1..Len(data) :
              /\ (x - 1) \notin RangeOf(result)
              /\ BeyondBuffer(dev2[x], Mad4(data), threshold)

ConstantData == data # <<>> /\ \A k \in 1..Len(data) : data[k] = data[1]

\* C12: on a series whose values are all equal detectAnomaliesHeap returns
\* the empty set for every threshold; the MAD is 0 and robust_std is the
\* epsilon floor.
C12_ConstantSeriesFlagsNothing ==
    (Heap /\ pc = "returned" /\ ConstantData) =>
        /\ Mad4(data) = 0
        /\ RobustStdIsEpsilon(Mad4(data))
        /\ result = <<>>

\* A constant series of a non-zero value, long enough for the cap to allow
\* a point, with a threshold that is not positive.
C12_Witness ==
    /\ Heap
    /\ pc = "returned"
    /\ ConstantData
    /\ data[1] # 0
    /\ Len(data) >= 20
    /\ threshold <= 0

ScenarioBCall == Heap /\ pc = "returned" /\ data = ScenarioB /\ threshold = 200

\* C13: on 100 values that are all 1.0 except one 100.0 the median is 1.0,
\* the MAD is 0 (robust_std is epsilon), and detectAnomaliesHeap with
\* threshold 2.0 returns the index of the 100.0 alone although the cap is 5.
C13_ScenarioBFlagsTheOutlier ==
    ScenarioBCall =>
        /\ Median2(SortAsc(data)) = 2 * 1
        /\ Mad4(data) = 0
        /\ RobustStdIsEpsilon(Mad4(data))
        /\ Len(data) \div 20 = 5
        /\ result = <<50>>

\* The call of scenario B has returned one index.
C13_Witness == ScenarioBCall /\ Len(result) = 1 /\ data[result[1] + 1] = 100

\* C14: on an empty series every detector returns the empty set; the
\* calibrator returns without entering its search (no candidate list, no
\* detector run), and the sliding detector without touching its window.
C14_EmptySeriesEmptyResult ==
    /\ (Heap /\ data = <<>> /\ pc = "returned") => result = <<>>
    /\ (Granular /\ data = <<>>) =>
          /\ pc \in {"entry", "returned"}
          /\ tried = <<>>
          /\ attempt = 0
          /\ result = <<>>
    /\ (Sliding /\ series = <<>>) =>
          /\ i = 0
          /\ window = <<>>
          /\ ~ub
          /\ result = <<>>

\* The calibrator has returned from a call on an empty series with a target
\* rate inside (0, 1).
C14_Witness ==
    /\ Granular
    /\ pc = "returned"
    /\ data = <<>>
    /\ target_percentage > 0
    /\ target_percentage < 1000

\* d > c for the normalized deviation d, c a threshold in hundredths.
AboveThreshold(dev2, mad4, c) ==
    IF mad4 = 0
    THEN dev2 > 0 \/ c < 0
    ELSE dev2 * 10000000 > c * 10 * mad4 * 7413

\* C17: detectAnomaliesHeap returns the first k entries of the descending
\* deviation ranking, k = min(floor(0.05 * n), number of points with
\* d > 1.2 * max(t, 2.0)): every returned point has d > 1.2 * max(t, 2.0),
\* deviates at least as much as every point not returned, and no qualifying
\* point is left out while the cap is not reached.
C17_FirstKOfRanking ==
    (Heap /\ pc = "returned" /\ data # <<>>) =>
        LET n    == Len(data)
            dev2 == Deviations2(data, Median2(SortAsc(data)))
            mad4 == Mad4(data)
            a    == Max(threshold, 200)
            Q    == {x \in 0..(n - 1) : BeyondBuffer(dev2[x + 1], mad4, a)}
            k    == Min(n \div 20, Cardinality(Q))
        IN  /\ \A j \in 1..(n - 1) :
                  dev2[deviation_pairs[j] + 1] >= dev2[deviation_pairs[j + 1] + 1]
            /\ Len(result) = k
            /\ RangeOf(result) = {deviation_pairs[j] : j \in 1..k}
            /\ RangeOf(result) \subseteq Q
            /\ \A x \in RangeOf(result) : \A y \in (0..(n - 1)) \ RangeOf(result) :
                  dev2[x + 1] >= dev2[y + 1]
            /\ Len(result) < n \div 20 => RangeOf(result) = Q

\* A call that returns a point, has room under the cap, and leaves out a
\* point whose deviation is above the adaptive threshold but not above 1.2
\* times it.
C17_Witness ==
    /\ Heap
    /\ pc = "returned"
    /\ result # <<>>
    /\ Len(result) < Len(data) \div 20
    /\ LET dev2 == Deviations2(data, Median2(SortAsc(data)))
           a    == Max(threshold, 200)
       IN  \E y \in 1..Len(data) :
              /\ (y - 1) \notin RangeOf(result)
              /\ AboveThreshold(dev2[y], Mad4(data), a)
              /\ ~BeyondBuffer(dev2[y], Mad4(data), a)

\* 0.8 * target_rate > floor(0.05 * n) / n.
TargetAboveCap ==
    /\ Granular
    /\ data # <<>>
    /\ 8 * target_percentage * Len(data) > 10000 * (Len(data) \div 20)

\* C20: no detector run of the search flags more than floor(0.05 * n)
\* points, and when 0.8 * target_rate > floor(0.05 * n) / n the search never
\* accepts early: it tries every candidate and returns the best-seen one.
C20_NoAcceptanceAboveCap ==
    /\ Granular =>
          \A k \in 1..Len(tried) : 20 * Len(tried[k].anomalies) <= Len(data)
    /\ TargetAboveCap =>
          /\ pc # "break"
          /\ pc = "returned" =>
                /\ Len(tried) = Len(thresholds)
                /\ result = best_anomalies
                /\ result = tried[FirstClosest].anomalies

\* An exhausted search for a target rate of 0.08 on a series where the
\* detector flags as many points as the cap allows.
C20_Witness ==
    /\ TargetAboveCap
    /\ pc = "returned"
    /\ target_percentage < 1000
    /\ result # <<>>
    /\ Len(result) = Len(data) \div 20

\* C15: the same detector or calibrator call made twice on the same series
\* with the same configuration returns the same label set both times,
\* whatever the first call left behind.
C15_SameResultTwice ==
    (pc = "returned" /\ earlier # <<>>) => result = earlier[1]

\* A calibrator call has returned a second time with a non-empty set, on a
\* series whose ranking holds two equally deviating points in descending
\* index order.
C15_Witness ==
    /\ Granular
    /\ pc = "returned"
    /\ earlier # <<>>
    /\ result # <<>>
    /\ LET dev2 == Deviations2(data, Median2(SortAsc(data)))
       IN  \E j \in 1..(Len(data) - 1) :
              /\ dev2[deviation_pairs[j] + 1] = dev2[deviation_pairs[j + 1] + 1]
              /\ deviation_pairs[j] > deviation_pairs[j + 1]
              /\ deviation_pairs[j] \in RangeOf(result)

\* C16: in the deviation ranking points of equal deviation stand in
\* ascending index order, so where the cap cuts through a group of equally
\* deviating qualifying points the lowest indices of the group are returned.
C16_TiesByAscendingIndex ==
    (Heap /\ pc = "returned" /\ data # <<>>) =>
        LET n    == Len(data)
            dev2 == Deviations2(data, Median2(SortAsc(data)))
            mad4 == Mad4(data)
            a    == Max(threshold, 200)
            Q    == {x \in 0..(n - 1) : BeyondBuffer(dev2[x + 1], mad4, a)}
            Before(x) == {y \in Q : \/ dev2[y + 1] > dev2[x + 1]
                                    \/ dev2[y + 1] = dev2[x + 1] /\ y < x}
        IN  /\ \A j \in 1..(n - 1) :
                  dev2[deviation_pairs[j] + 1] = dev2[deviation_pairs[j + 1] + 1]
                      => deviation_pairs[j] < deviation_pairs[j + 1]
            /\ RangeOf(result) = {x \in Q : Cardinality(Before(x)) < n \div 20}

\* The W values x_(idx-W+1) .. x_idx of the series, the value at idx included.
OwnWindow(idx) == SubSeq(series, idx - window_size + 2, idx + 1)

\* |x - m| > t * s for the population mean m = S / n and the population
\* standard deviation s = sqrt(Q / n^3) of the n values of w, where S is
\* their sum and Q the sum of the (n v - S)^2.  For t >= 0 this is
\* (n x - S)^2 * n > t^2 * Q; where the two sides are equal and not 0, the
\* m and s that the double arithmetic yields decide.
PopulationDeviates(x, t, w) ==
    LET n   == Len(w)
        S   == Sum(w)
        Q   == Sum([k \in 1..n |-> (n * w[k] - S) * (n * w[k] - S)] \o <<>>)
        lhs == (n * x - S) * (n * x - S) * n * t[2] * t[2]
        rhs == t[1] * t[1] * Q
    IN  IF t[1] < 0 THEN n * x # S \/ Q > 0
        ELSE IF lhs = rhs /\ lhs > 0 THEN DoubleDeviates(x, t, w)
        ELSE lhs > rhs

\* C18: a returned call with a window size W >= 1 lists, in ascending order,
\* exactly the indices idx >= W - 1 whose value deviates from the population
\* mean of the W values up to and including it by more than the threshold
\* times their population standard deviation.
C18_FlaggedIffDeviatesInOwnWindow ==
    (Sliding /\ pc = "returned" /\ window_size >= 1) =>
        /\ \A k \in 1..(Len(result) - 1) : result[k] < result[k + 1]
        /\ \A idx \in 0..(Len(series) - 1) :
              idx \in RangeOf(result)
                  <=> /\ idx >= window_size - 1
                      /\ PopulationDeviates(series[idx + 1], sw_threshold,
                                            OwnWindow(idx))

\* A returned call whose window has slid, with a flagged index and one at or
\* after W - 1 that is not flagged.
C18_Witness ==
    /\ Sliding
    /\ pc = "returned"
    /\ window_size >= 2
    /\ Len(series) > window_size
    /\ result # <<>>
    /\ \E idx \in (window_size - 1)..(Len(series) - 1) : idx \notin RangeOf(result)

\* The contract of the detector's configuration: a window of at least one
\* value and a positive threshold.
ContractCall == Sliding /\ window_size >= 1 /\ sw_threshold[1] > 0

\* W - 1 <= t * t, for the threshold t = t[1] / t[2].
AtMostSquare(W, t) == (W - 1) * t[2] * t[2] <= t[1] * t[1]

\* W + 1 <= t * t.
SquareClearsWindow(W, t) == (W + 1) * t[2] * t[2] <= t[1] * t[1]

AtLeastTwo == SelectSeq(thresholds, LAMBDA t : DGeq(t, D2_0))

\* Lines 131-170 over the candidates cands[k..]: what the search returns when
\* it stands before candidate k with the running best `best`.
RECURSIVE SearchFrom(_, _, _, _, _)
SearchFrom(cands, k, d, target, best) ==
    IF k > Len(cands) THEN best.anomalies
    ELSE LET found == detectAnomaliesHeap(d, Hundredths(cands[k]))
             diff  == Diff(Len(found), Len(d), target)
             next  == IF Closer(diff, best.diff)
                      THEN [diff      |-> [max |-> FALSE, num |-> diff],
                            anomalies |-> found]
                      ELSE best
         IN  IF InRange(Len(found), Len(d), target) THEN next.anomalies
             ELSE SearchFrom(cands, k + 1, d, target, next)

\* The search of detectAnomaliesHeapGranular run over the list cands.
SearchOnly(cands) ==
    SearchFrom(cands, 1, data, target_percentage,
               [diff |-> [max |-> TRUE, num |-> FZero], anomalies |-> <<>>])

\* C21: in a search on a non-empty series the best-seen threshold is never
\* below 2.0; every candidate below 2.0 that was tried gave the label set
\* that the candidate 2.0 gave before it, was not the first candidate with
\* its rate in range and did not pass the test of line 159; and the result
\* is the result of the search over the candidates >= 2.0.
C21_NeverBelowTwo ==
    (Granular /\ data # <<>> /\ pc # "entry") =>
        /\ DGeq(best_threshold, D2_0)
        /\ \A k \in 1..Len(tried) :
              ~DGeq(tried[k].threshold, D2_0) =>
                  /\ \E j \in 1..(k - 1) :
                        /\ tried[j].threshold = D2_0
                        /\ tried[j].anomalies = tried[k].anomalies
                  /\ RateInRange(k) => \E j \in 1..(k - 1) : RateInRange(j)
                  /\ ~InRange(Len(tried[k].anomalies), Len(data),
                              target_percentage)
        /\ pc = "returned" => result = SearchOnly(AtLeastTwo)

\* A returned search that went on to the candidates below 2.0 and whose
\* result is not empty and not the set of the first candidate.
C21_Witness ==
    /\ Granular
    /\ pc = "returned"
    /\ \E k \in 1..Len(tried) : ~DGeq(tried[k].threshold, D2_0)
    /\ result # <<>>
    /\ result # tried[1].anomalies

=============================================================================
